---- MODULE Spec2Model ----
(***************************************************************************)
(* A model of bwmap: the GPX -> GeoJSON conversion script util/togj.js     *)
(* (multiSplit, dateSplit, timeCompare, forEachUniqueRange, mergeLines,    *)
(* distance, addBbox and the top-level script) and, of js/gpxmap.js, the   *)
(* binary search and its use in renderSummary and walkPopup.               *)
(*                                                                         *)
(* JavaScript arrays are 0-based; the model keeps the source's 0-based     *)
(* indices (lo, hi, le, ri, mi) and reads element i of an array a as       *)
(* a[i + 1].  JavaScript strings are sequences of character codes.         *)
(* Property bags are functions whose domain is the set of property names   *)
(* that are present.                                                       *)
(***************************************************************************)
EXTENDS Integers, Sequences, FiniteSets, TLC

VARIABLES
    \* ---- js/gpxmap.js search(array, pred), one loop iteration per step
    sArray,     \* the array argument
    sPred,      \* the set of values on which pred is true
    le, ri,     \* the locals of search
    sEvals,     \* the indices at which pred has been evaluated so far
    sPc,        \* "idle" | "loop" | "done"
    \* ---- util/togj.js forEachUniqueRange(array, equal, func), stepwise
    rArray,     \* the array argument
    rEqual,     \* the pairs <<a, b>> for which equal(a, b) is true
    lo, hi,     \* the locals of forEachUniqueRange
    rCalls,     \* the <<lo, hi>> pairs func has been called with, in order
    res,        \* the local res: func's return values
    rPc,        \* "idle" | "outer" | "inner" | "done"
    \* ---- util/togj.js, the top-level script, one chained call per step
    argc,       \* process.argv.length
    dir,        \* the source directory: a sequence of [name, features] files
    readable,   \* whether fs.readdirSync(GPXDIR) succeeds
    feats,      \* the features gpxToJson returned, flattened
    lines,      \* ... after flatMap(multiSplit) and the LineString filter
    split,      \* dateSplit's result for each element of lines
    walks,      \* const walks: the flattened, sorted day-segments
    runs,       \* the <<lo, hi>> pairs mergeLines was called with
    merged,     \* forEachUniqueRange's result, before map(addBbox)
    geojson,    \* const geojson.features
    stdout,     \* what has been written to process.stdout, in order
    stderr,     \* what has been written to process.stderr, in order
    pc,         \* the script's position, "exit1" and "threw" once dead
    \* ---- util/togj.js distance(latLngs), one reduce callback per step
    dLatLngs,   \* the argument: an array of points or of arrays of points
    dNested,    \* whether latLngs[0] has an own property 'length'
    dSegs,      \* latLngs after the generalisation to MultiPolylines
    dPart,      \* how many elements reduce has visited
    dist,       \* reduce's accumulator; the return value once "done"
    dPc,        \* "idle" | "call" | "reduce" | "done"
    \* ---- util/togj.js addBbox(feature), one call
    bFeature,   \* the argument
    bOut,       \* the feature returned, <<>> before the return and after a throw
    bPc,        \* "idle" | "call" | "done" | "threw"
    \* ---- util/togj.js multiSplit(feature), one call
    mFeature,   \* the argument
    mOut,       \* the array returned, <<>> before the return and after a throw
    mPc,        \* "idle" | "call" | "done" | "threw"
    \* ---- js/gpxmap.js renderSummary(), with walkPopup and renderDetails
    index,      \* the walks of options.index, as require has loaded them
    selectedS,  \* window.history.state.s, what selected() returns
    idx,        \* renderSummary's const idx, "none" before it is set
    popup,      \* what walkPopup returned, "none" before, <<>> for undefined
    details,    \* what renderDetails was called with, in order
    vPc         \* "idle" | "call" | "walkPopup" | "popup" | "summary" |
                \* "done" | "threw"

searchVars == <<sArray, sPred, le, ri, sEvals, sPc>>
rangeVars == <<rArray, rEqual, lo, hi, rCalls, res, rPc>>
scriptVars == <<argc, dir, readable, feats, lines, split, walks, runs, merged,
                geojson, stdout, stderr, pc>>
distanceVars == <<dLatLngs, dNested, dSegs, dPart, dist, dPc>>
bboxVars == <<bFeature, bOut, bPc>>
splitVars == <<mFeature, mOut, mPc>>
renderVars == <<index, selectedS, idx, popup, details, vPc>>
vars == <<searchVars, rangeVars, scriptVars, distanceVars, bboxVars, splitVars,
          renderVars>>

\* What a step of each part of the model leaves alone.
exceptSearch == <<rangeVars, scriptVars, distanceVars, bboxVars, splitVars, renderVars>>
exceptRange == <<searchVars, scriptVars, distanceVars, bboxVars, splitVars, renderVars>>
exceptScript == <<searchVars, rangeVars, distanceVars, bboxVars, splitVars, renderVars>>
exceptDistance == <<searchVars, rangeVars, scriptVars, bboxVars, splitVars, renderVars>>
exceptBbox == <<searchVars, rangeVars, scriptVars, distanceVars, splitVars, renderVars>>
exceptSplit == <<searchVars, rangeVars, scriptVars, distanceVars, bboxVars, renderVars>>
exceptRender == <<searchVars, rangeVars, scriptVars, distanceVars, bboxVars, splitVars>>

----------------------------------------------------------------------------
\* Bounds of the model.

\* Longest array given to search.
MaxLen == 4
\* Longest array given to the stepwise forEachUniqueRange.
MaxRun == 3

\* Most files in the source directory.
MaxFiles == 2
\* Most coordinates in the source directory, all files together.
MaxPts == 3

\* Most parts of a MultiPolyline given to distance, and most points in all
\* of its parts together.
MaxParts == 3
MaxPoints == 3

\* The values the arrays of the two generic utilities hold.
Vals == {1, 2, 3}

----------------------------------------------------------------------------
\* Generic helpers.

Range(s) == {s[i] : i \in DOMAIN s}

SeqsUpTo(S, n) == UNION {[1..k -> S] : k \in 0..n}

\* Array.prototype.slice(lo, hi) for 0 <= lo <= hi <= length.
slice(array, from, to) == SubSeq(array, from + 1, to)

----------------------------------------------------------------------------
\* JavaScript strings, as sequences of character codes.

Min(a, b) == IF a < b THEN a ELSE b

\* String.prototype.substr(from, length)
substr(str, from, length) == SubSeq(str, from + 1, Min(Len(str), from + length))

\* String.prototype.endsWith(suffix)
endsWith(str, suffix) ==
    /\ Len(suffix) <= Len(str)
    /\ SubSeq(str, Len(str) - Len(suffix) + 1, Len(str)) = suffix

\* The < operator on two strings: lexicographic on the character codes.
StrLess(a, b) ==
    \E i \in 1..(Min(Len(a), Len(b)) + 1) :
        /\ \A j \in 1..(i - 1) : a[j] = b[j]
        /\ \/ i > Len(a) /\ i <= Len(b)
           \/ i <= Len(a) /\ i <= Len(b) /\ a[i] < b[i]

\* The length of the date prefix of a timestamp: substr(0, 10).
DateLen == 10

\* "2017-06-10" and "2017-06-11"
Day10 == <<50, 48, 49, 55, 45, 48, 54, 45, 49, 48>>
Day11 == <<50, 48, 49, 55, 45, 48, 54, 45, 49, 49>>

\* "2017-06-10T0" and "2017-06-11T0", the timestamps of track points, and
\* "2017-06-10T1", the <time> of a track: timestamps, shortened to one
\* character of time of day.
Stamps == {Day10 \o <<84, 48>>, Day11 \o <<84, 48>>}
TrackTime == Day10 \o <<84, 49>>

\* ".gpx", and the names of file j of a directory, no two the same:
\* "2017-06-10-<j>.gpx", "2017-06-11-<j>.gpx" and "notes<j>.txt".
DotGpx == <<46, 103, 112, 120>>
Digit(j) == 48 + j
Loop10(j) == Day10 \o <<45, Digit(j)>> \o DotGpx
Loop11(j) == Day11 \o <<45, Digit(j)>> \o DotGpx
NotesTxt(j) == <<110, 111, 116, 101, 115, Digit(j), 46, 116, 120, 116>>

----------------------------------------------------------------------------
\* JavaScript objects.

\* Object.assign({}, a, b)
ObjectAssign(a, b) ==
    [k \in (DOMAIN a) \cup (DOMAIN b) |-> IF k \in DOMAIN b THEN b[k] ELSE a[k]]

\* The object without a property: what is left of a property bag.
Without(a, k) == [j \in (DOMAIN a) \ {k} |-> a[j]]

\* Truthiness of a string property: present and not "".
Truthy(props, k) == k \in DOMAIN props /\ props[k] # <<>>

\* Truthiness of an array property: present (every array is truthy).
Has(props, k) == k \in DOMAIN props

Feature(properties, type, coordinates) ==
    [type |-> "Feature", properties |-> properties,
     geometry |-> [type |-> type, coordinates |-> coordinates]]

----------------------------------------------------------------------------
\* js/gpxmap.js: search

\* const mi = le + ((ri - le) >> 1); ri - le is never negative.
Mid(l, r) == l + ((r - l) \div 2)

\* pred(array[mi])
PredAt(array, pred, mi) == array[mi + 1] \in pred

SearchInit ==
    /\ sArray \in SeqsUpTo(Vals, MaxLen)
    /\ sPred \in SUBSET Vals
    /\ le = -1
    /\ ri = Len(sArray)
    /\ sEvals = {}
    /\ sPc = "loop"

\* The loop body with the two branches exchanged (le = mi where pred holds).
SearchStepFlipped ==
    /\ sPc = "loop"
    /\ 1 + le # ri
    /\ LET mi == Mid(le, ri) IN
         /\ sEvals' = sEvals \cup {mi}
         /\ IF PredAt(sArray, sPred, mi)
              THEN le' = mi /\ ri' = ri
              ELSE ri' = mi /\ le' = le
    /\ UNCHANGED <<sArray, sPred, sPc>>

\* One iteration of  while (1 + le !== ri) { ... }
SearchStep ==
    /\ sPc = "loop"
    /\ 1 + le # ri
    /\ LET mi == Mid(le, ri) IN
         /\ sEvals' = sEvals \cup {mi}
         /\ IF PredAt(sArray, sPred, mi)
              THEN ri' = mi /\ le' = le
              ELSE le' = mi /\ ri' = ri
    /\ UNCHANGED <<sArray, sPred, sPc>>

\* The loop condition fails: return ri.
SearchReturn ==
    /\ sPc = "loop"
    /\ 1 + le = ri
    /\ sPc' = "done"
    /\ UNCHANGED <<sArray, sPred, le, ri, sEvals>>

----------------------------------------------------------------------------
\* util/togj.js: forEachUniqueRange

\* The inner loop's condition, had it compared each element with the one
\* before it:  hi !== array.length && equal(array[hi - 1], array[hi])
RunContinuesPrev(array, equal, l, h) ==
    h # Len(array) /\ <<array[h], array[h + 1]>> \in equal

\* The inner loop's condition:
\*   hi !== array.length && equal(array[lo], array[hi])
RunContinues(array, equal, l, h) ==
    h # Len(array) /\ <<array[l + 1], array[h + 1]>> \in equal

RangeIdle ==
    /\ rArray = <<>> /\ rEqual = {} /\ lo = 0 /\ hi = 0
    /\ rCalls = <<>> /\ res = <<>> /\ rPc = "idle"

SearchIdle ==
    /\ sArray = <<>> /\ sPred = {} /\ le = -1 /\ ri = 0
    /\ sEvals = {} /\ sPc = "idle"

\* const res = []; lo = 0
RangeInit ==
    /\ rArray \in SeqsUpTo(Vals, MaxRun)
    /\ rEqual \in SUBSET (Vals \X Vals)
    /\ lo = 0
    /\ hi = 0
    /\ rCalls = <<>>
    /\ res = <<>>
    /\ rPc = "outer"

\* The outer loop's test  lo !== array.length  and the inner loop's
\* initialisation  hi = 1 + lo.
RangeOuter ==
    /\ rPc = "outer"
    /\ IF lo # Len(rArray)
         THEN hi' = 1 + lo /\ rPc' = "inner"
         ELSE hi' = hi /\ rPc' = "done"
    /\ UNCHANGED <<rArray, rEqual, lo, rCalls, res>>

\* One iteration of the inner loop: ++hi.
RangeInner ==
    /\ rPc = "inner"
    /\ RunContinues(rArray, rEqual, lo, hi)
    /\ hi' = hi + 1
    /\ UNCHANGED <<rArray, rEqual, lo, rCalls, res, rPc>>

\* The end of the inner loop, had the outer loop stepped by ++lo.
RangePushStay ==
    /\ rPc = "inner"
    /\ ~RunContinues(rArray, rEqual, lo, hi)
    /\ rCalls' = Append(rCalls, <<lo, hi>>)
    /\ res' = Append(res, slice(rArray, lo, hi))
    /\ lo' = lo + 1
    /\ rPc' = "outer"
    /\ UNCHANGED <<rArray, rEqual, hi>>

\* The inner loop ends: res.push(func(lo, hi, array)); lo = hi.  func is
\* the slice of the range, as in dateSplit's callback.
RangePush ==
    /\ rPc = "inner"
    /\ ~RunContinues(rArray, rEqual, lo, hi)
    /\ rCalls' = Append(rCalls, <<lo, hi>>)
    /\ res' = Append(res, slice(rArray, lo, hi))
    /\ lo' = hi
    /\ rPc' = "outer"
    /\ UNCHANGED <<rArray, rEqual, hi>>

----------------------------------------------------------------------------
\* util/togj.js: the functions of the conversion script.

\* forEachUniqueRange(array, equal, func) as a function of its arguments:
\* the <<lo, hi>> pairs func is called with, in order.  The callers below
\* apply their func to each pair.
RunEnd(array, equal, l) ==
    CHOOSE h \in (l + 1)..Len(array) :
        /\ ~RunContinues(array, equal, l, h)
        /\ \A g \in (l + 1)..(h - 1) : RunContinues(array, equal, l, g)

forEachUniqueRange(array, equal) ==
    LET from[l \in 0..Len(array)] ==
            IF l = Len(array) THEN <<>>
            ELSE <<<<l, RunEnd(array, equal, l)>>>> \o from[RunEnd(array, equal, l)]
    IN  from[0]

\* assert.equal(properties.time, properties.coordTimes[0][0]), where a
\* missing property and a missing element are both undefined.
MultiTimeAgrees(properties) ==
    LET first == properties.coordTimes[1] IN
    IF Has(properties, "time")
      THEN first # <<>> /\ properties.time = first[1]
      ELSE first = <<>>

\* multiSplit: whether one of its assertions fails.
multiSplitThrows(feature) ==
    /\ feature.geometry.type = "MultiLineString"
    /\ Has(feature.properties, "coordTimes")
    /\ feature.geometry.coordinates # <<>>
    /\ \E i \in 0..(Len(feature.geometry.coordinates) - 1) :
          \/ ~(i < Len(feature.properties.coordTimes))
          \/ Len(feature.properties.coordTimes[i + 1])
                # Len(feature.geometry.coordinates[i + 1])
          \/ ~MultiTimeAgrees(feature.properties)

\* multiSplit, had it left time as it is: the first part's first timestamp.
multiSplitKeepTime(feature) ==
    IF feature.geometry.type # "MultiLineString" THEN <<feature>>
    ELSE [k \in DOMAIN feature.geometry.coordinates |->
            LET properties ==
                  IF Has(feature.properties, "coordTimes")
                    THEN ObjectAssign(feature.properties,
                             [coordTimes |-> feature.properties.coordTimes[k]])
                    ELSE feature.properties
            IN  Feature(properties, "LineString", feature.geometry.coordinates[k])]

\* multiSplit: the array it returns when no assertion fails.
multiSplit(feature) ==
    IF feature.geometry.type # "MultiLineString" THEN <<feature>>
    ELSE [k \in DOMAIN feature.geometry.coordinates |->
            LET properties ==
                  IF Has(feature.properties, "coordTimes")
                    THEN LET times == feature.properties.coordTimes[k] IN
                         IF times = <<>>
                           THEN Without(ObjectAssign(feature.properties,
                                    [coordTimes |-> times]), "time")
                           ELSE ObjectAssign(feature.properties,
                                    [coordTimes |-> times, time |-> times[1]])
                    ELSE feature.properties
            IN  Feature(properties, "LineString", feature.geometry.coordinates[k])]

\* dateSplit's first test: the feature is returned whole, with a date.
Unsplittable(feature) ==
    \/ feature.geometry.type # "LineString"
    \/ ~Has(feature.properties, "coordTimes")
    \/ Len(feature.properties.coordTimes) # Len(feature.geometry.coordinates)

\* dateSplit: whether its assertion fails.
dateSplitThrows(feature) ==
    /\ ~Unsplittable(feature)
    /\ Len(feature.properties.coordTimes) # Len(feature.geometry.coordinates)

\* The equality of dateSplit, had it compared the year only: substr(0, 4).
SameDayYear(times) ==
    {p \in Range(times) \X Range(times) : substr(p[1], 0, 4) = substr(p[2], 0, 4)}

\* (lhs, rhs) => lhs.substr(0, 10) === rhs.substr(0, 10), as the set of pairs
\* of elements of the array for which it is true.
SameDay(times) ==
    {p \in Range(times) \X Range(times) :
        substr(p[1], 0, DateLen) = substr(p[2], 0, DateLen)}

\* (feature.properties.time || feature.properties.gpxFileName).substr(0, 10)
FallbackDate(properties) ==
    substr(IF Truthy(properties, "time") THEN properties.time
           ELSE properties.gpxFileName, 0, DateLen)

\* dateSplit's callback, had it read time before slicing coordTimes.
DaySegmentStaleTime(feature, l, h) ==
    LET coordTimes == slice(feature.properties.coordTimes, l, h)
        time == feature.properties.coordTimes[1]
        date == substr(time, 0, DateLen)
    IN  Feature(ObjectAssign(feature.properties,
                    [coordTimes |-> coordTimes, time |-> time, date |-> date]),
                "LineString", slice(feature.geometry.coordinates, l, h))

\* dateSplit's callback: the feature of the range [l, h).
DaySegment(feature, l, h) ==
    LET coordTimes == slice(feature.properties.coordTimes, l, h)
        time == coordTimes[1]
        date == substr(time, 0, DateLen)
    IN  Feature(ObjectAssign(feature.properties,
                    [coordTimes |-> coordTimes, time |-> time, date |-> date]),
                "LineString", slice(feature.geometry.coordinates, l, h))

dateSplit(feature) ==
    IF Unsplittable(feature)
      THEN <<[type |-> "Feature",
              properties |-> ObjectAssign(feature.properties,
                                 [date |-> FallbackDate(feature.properties)]),
              geometry |-> feature.geometry]>>
      ELSE LET ranges == forEachUniqueRange(feature.properties.coordTimes,
                             SameDay(feature.properties.coordTimes))
           IN  [k \in DOMAIN ranges |-> DaySegment(feature, ranges[k][1], ranges[k][2])]

\* lhs.properties.time || lhs.properties.date
TimeOrDate(feature) ==
    IF Truthy(feature.properties, "time") THEN feature.properties.time
    ELSE feature.properties.date

timeCompare(lhs, rhs) ==
    IF StrLess(TimeOrDate(lhs), TimeOrDate(rhs)) THEN -1
    ELSE IF StrLess(TimeOrDate(rhs), TimeOrDate(lhs)) THEN 1
    ELSE 0

\* The array left in the order dateSplit returned it.
sortSkipped(array) == array

\* Array.prototype.sort(timeCompare): a stable sort (ECMAScript 2019), here
\* by insertion.  Features that compare equal stay in their order.
sort(array) ==
    LET insert(sorted, x) ==
            LET n == Cardinality({i \in DOMAIN sorted : timeCompare(sorted[i], x) <= 0})
            IN  SubSeq(sorted, 1, n) \o <<x>> \o SubSeq(sorted, n + 1, Len(sorted))
        upTo[k \in 0..Len(array)] ==
            IF k = 0 THEN <<>> ELSE insert(upTo[k - 1], array[k])
    IN  upTo[Len(array)]

\* (lhs, rhs) => lhs.properties.date === rhs.properties.date
SameDate(features) ==
    {p \in Range(features) \X Range(features) :
        p[1].properties.date = p[2].properties.date}

\* mergeLines: whether it throws: an assertion fails, or the coordTimes of a
\* later element is read where there is none.
mergeLinesThrows(l, h, features) ==
    /\ ~(h - l <= 1)
    /\ LET run == slice(features, l, h) IN
       \/ \E i \in DOMAIN run : run[i].geometry.type # "LineString"
       \/ /\ Has(run[1].properties, "coordTimes")
          /\ \E i \in DOMAIN run :
                \/ ~Has(run[i].properties, "coordTimes")
                \/ Len(run[i].properties.coordTimes)
                      # Len(run[i].geometry.coordinates)

\* mergeLines without its first test: a one-element run becomes a
\* one-part MultiLineString.
mergeLinesWrap(l, h, features) ==
    LET run == slice(features, l, h) IN
    Feature([date |-> run[1].properties.date], "MultiLineString",
            [i \in DOMAIN run |-> run[i].geometry.coordinates])

\* mergeLines, had it taken date and time from the last element of the run
\* and the parts in reverse.
mergeLinesLastDate(l, h, features) ==
    IF h - l <= 1 THEN features[l + 1]
    ELSE LET run == slice(features, l, h)
             coordTimes == [i \in DOMAIN run |-> run[i].properties.coordTimes]
             properties ==
                 IF Has(run[1].properties, "coordTimes")
                   THEN [date |-> run[Len(run)].properties.date,
                         coordTimes |-> coordTimes,
                         time |-> run[Len(run)].properties.coordTimes[1]]
                   ELSE [date |-> run[1].properties.date]
         IN  Feature(properties, "MultiLineString",
                     [i \in DOMAIN run |-> run[Len(run) + 1 - i].geometry.coordinates])

\* mergeLines: the feature it returns when it does not throw.
mergeLines(l, h, features) ==
    IF h - l <= 1 THEN features[l + 1]
    ELSE LET run == slice(features, l, h)
             coordTimes == [i \in DOMAIN run |-> run[i].properties.coordTimes]
             properties ==
                 IF Has(run[1].properties, "coordTimes")
                   THEN [date |-> run[1].properties.date,
                         coordTimes |-> coordTimes,
                         time |-> coordTimes[1][1]]
                   ELSE [date |-> run[1].properties.date]
         IN  Feature(properties, "MultiLineString",
                     [i \in DOMAIN run |-> run[i].geometry.coordinates])

\* L.GeoJSON.coordsToLatLngs(coordinates, depth): GeoJSON positions are
\* [lng, lat] or [lng, lat, alt].
coordsToLatLng(coords) == [lat |-> coords[2], lng |-> coords[1]]

coordsToLatLngs(coordinates, depth) ==
    IF depth = 0
      THEN [i \in DOMAIN coordinates |-> coordsToLatLng(coordinates[i])]
      ELSE [k \in DOMAIN coordinates |->
              [i \in DOMAIN coordinates[k] |-> coordsToLatLng(coordinates[k][i])]]

Abs(x) == IF x < 0 THEN -x ELSE x

\* Distances are fixed-point numbers, in quarters of a metre.
Quarters == 4

\* Earth.distance(p, q): the great-circle distance, here a quarter of a metre
\* for each unit of difference in latitude and in longitude.  As the
\* haversine formula of Leaflet it is symmetric and 0 from a point to itself.
EarthDistance(p, q) == Abs(p.lat - q.lat) + Abs(p.lng - q.lng)

\* Math.round(x): the nearest integer, halves upwards; in whole metres.
MathRound(x) == (2 * x + Quarters) \div (2 * Quarters)

RECURSIVE SumSeq(_)
SumSeq(ns) == IF ns = <<>> THEN 0 ELSE Head(ns) + SumSeq(Tail(ns))

\* distance, had its loop started at p = seg[0]: the line closed to a ring.
SegDistanceClosed(seg) ==
    IF 1 < Len(seg)
      THEN SumSeq([j \in 1..Len(seg) |->
                     LET i == Len(seg) - j
                         q == seg[i + 1]
                         p == IF j = 1 THEN seg[1] ELSE seg[i + 2]
                     IN  EarthDistance(p, q)])
      ELSE 0

\* distance's loop over one part: i runs from seg.length - 1 down to 0 and
\* adds Earth.distance(p, q) for q = seg[i] and p the point visited before
\* (q itself in the first round).
SegDistance(seg) ==
    IF 1 < Len(seg)
      THEN SumSeq([j \in 1..Len(seg) |->
                     LET i == Len(seg) - j
                         q == seg[i + 1]
                         p == IF j = 1 THEN q ELSE seg[i + 2]
                     IN  EarthDistance(p, q)])
      ELSE 0

\* distance(latLngs); depth tells whether latLngs[0] is a point (0) or an
\* array of points.
distance(latLngs, depth) ==
    IF Len(latLngs) = 0 THEN 0
    ELSE LET parts == IF depth = 0 THEN <<latLngs>> ELSE latLngs
         IN  SumSeq([k \in DOMAIN parts |-> SegDistance(parts[k])])

DistanceIdle ==
    /\ dLatLngs = <<>> /\ dNested = FALSE /\ dSegs = <<>>
    /\ dPart = 0 /\ dist = 0 /\ dPc = "idle"

\* The points distance is called on.
LatLngs == {[lat |-> 0, lng |-> 0], [lat |-> 0, lng |-> 1], [lat |-> 2, lng |-> 1]}

\* The part lengths of the arguments of distance: at most MaxParts parts, of
\* at most MaxPoints points in total; a part may be empty.
PartLengths ==
    {ls \in UNION {[1..k -> 0..MaxPoints] : k \in 0..MaxParts} :
        SumSeq(ls) <= MaxPoints}

\* The arrays of arrays of elements of S whose lengths are ls.
RECURSIVE PartsOver(_, _)
PartsOver(S, ls) ==
    IF ls = <<>> THEN {<<>>}
    ELSE {<<seg>> \o rest : seg \in [1..Head(ls) -> S],
                            rest \in PartsOver(S, Tail(ls))}

\* The arrays of arrays of points whose lengths are ls.
PartsOf(ls) == PartsOver(LatLngs, ls)

\* distance(latLngs) is called on a Polyline's points or on a
\* MultiPolyline's arrays of points.
DistanceInit ==
    /\ \/ dNested = FALSE /\ dLatLngs \in SeqsUpTo(LatLngs, MaxPoints)
       \/ dNested = TRUE /\ \E ls \in PartLengths : dLatLngs \in PartsOf(ls)
    /\ dSegs = <<>>
    /\ dPart = 0
    /\ dist = 0
    /\ dPc = "call"

\* if (0 === latLngs.length) return 0;
\* if (!latLngs[0].hasOwnProperty('length')) latLngs = [ latLngs ];
DistanceEnter ==
    /\ dPc = "call"
    /\ IF Len(dLatLngs) = 0
         THEN dPc' = "done" /\ dSegs' = dSegs
         ELSE /\ dSegs' = IF dNested THEN dLatLngs ELSE <<dLatLngs>>
              /\ dPc' = "reduce"
    /\ UNCHANGED <<dLatLngs, dNested, dPart, dist>>

\* One call of reduce's callback: dist += the loop's sum over seg.
DistanceSeg ==
    /\ dPc = "reduce"
    /\ dPart < Len(dSegs)
    /\ dist' = dist + SegDistance(dSegs[dPart + 1])
    /\ dPart' = dPart + 1
    /\ UNCHANGED <<dLatLngs, dNested, dSegs, dPc>>

\* reduce returns the accumulator, and distance returns it.
DistanceReturn ==
    /\ dPc = "reduce"
    /\ dPart = Len(dSegs)
    /\ dPc' = "done"
    /\ UNCHANGED <<dLatLngs, dNested, dSegs, dPart, dist>>

SetMin(S) == CHOOSE x \in S : \A y \in S : x <= y
SetMax(S) == CHOOSE x \in S : \A y \in S : x >= y

LineType(type) == type \in {"LineString", "MultiLineString"}

Depth(geometry) == IF geometry.type = "LineString" THEN 0 ELSE 1

\* Every position of a line or multi-line geometry.
Positions(geometry) ==
    IF Depth(geometry) = 0 THEN Range(geometry.coordinates)
    ELSE UNION {Range(geometry.coordinates[k]) : k \in DOMAIN geometry.coordinates}

\* depth ? geometry.coordinates[0][0] : geometry.coordinates[0]
FirstPosition(geometry) ==
    IF Depth(geometry) = 0 THEN geometry.coordinates[1]
    ELSE geometry.coordinates[1][1]

\* addBbox: whether it throws: the bounds of no point have no corners, there
\* is no first position, or the first position has neither 3 nor 2 entries.
addBboxThrows(feature) ==
    /\ LineType(feature.geometry.type)
    /\ IF \/ Positions(feature.geometry) = {}
          \/ feature.geometry.coordinates = <<>>
          \/ Depth(feature.geometry) = 1 /\ feature.geometry.coordinates[1] = <<>>
         THEN TRUE
         ELSE Len(FirstPosition(feature.geometry)) \notin {2, 3}

\* addBbox: the feature it returns when it does not throw.  A corner of
\* Leaflet's bounds carries no altitude.
addBbox(feature) ==
    IF ~LineType(feature.geometry.type) THEN feature
    ELSE LET geometry == feature.geometry
             latLngs == coordsToLatLngs(geometry.coordinates, Depth(geometry))
             lats == {c[2] : c \in Positions(geometry)}
             lngs == {c[1] : c \in Positions(geometry)}
             flat == <<SetMin(lngs), SetMin(lats), SetMax(lngs), SetMax(lats)>>
             bbox == IF Len(FirstPosition(geometry)) = 3
                       THEN <<flat[1], flat[2], "undefined",
                              flat[3], flat[4], "undefined">>
                       ELSE flat
         IN  [type |-> "Feature", bbox |-> bbox,
              properties |-> [date |-> feature.properties.date,
                              distance |->
                                  MathRound(distance(latLngs, Depth(geometry)))],
              geometry |-> geometry]

BboxIdle == bFeature = <<>> /\ bOut = <<>> /\ bPc = "idle"

\* The positions of the geometries addBbox is called on: [lng, lat] and
\* [lng, lat, alt].
Positions2 == {<<0, 0>>, <<1, 2>>}
Positions3 == {<<0, 0, 5>>, <<1, 2, 7>>}

\* addBbox is called on a feature with a date: a line of at most MaxPoints
\* positions, a multi-part line of at most MaxParts parts and MaxPoints
\* positions, or a point.
BboxInit ==
    /\ \E geometry \in
            {[type |-> "LineString", coordinates |-> c] :
                c \in SeqsUpTo(Positions2 \cup Positions3, MaxPoints)}
            \cup UNION {
                {[type |-> "MultiLineString", coordinates |-> c] :
                    c \in PartsOver(Positions2 \cup Positions3, ls)}
                : ls \in PartLengths}
            \cup {[type |-> "Point", coordinates |-> c] : c \in Positions2} :
          bFeature = [type |-> "Feature", properties |-> [date |-> Day10],
                      geometry |-> geometry]
    /\ bOut = <<>>
    /\ bPc = "call"

\* if (!feature.geometry.type.endsWith('LineString')) return feature;
BboxPass ==
    /\ bPc = "call"
    /\ ~LineType(bFeature.geometry.type)
    /\ bOut' = addBbox(bFeature)
    /\ bPc' = "done"
    /\ UNCHANGED bFeature

\* A TypeError on the bounds of no point or on a missing first position, or
\* the failed assert.equal(..., 2).
BboxThrow ==
    /\ bPc = "call"
    /\ addBboxThrows(bFeature)
    /\ bPc' = "threw"
    /\ UNCHANGED <<bFeature, bOut>>

\* return { 'type': 'Feature', bbox, properties, geometry };
BboxReturn ==
    /\ bPc = "call"
    /\ LineType(bFeature.geometry.type)
    /\ ~addBboxThrows(bFeature)
    /\ bOut' = addBbox(bFeature)
    /\ bPc' = "done"
    /\ UNCHANGED bFeature

\* gpxToJson: the features of one file, each with the file's name (the
\* names fs.readdirSync returns hold no '/').
gpxToJson(file) ==
    [i \in DOMAIN file.features |->
        [type |-> "Feature",
         properties |-> ObjectAssign(file.features[i].properties,
                            [gpxFileName |-> file.name]),
         geometry |-> file.features[i].geometry]]

\* Array.prototype.flatMap and Array.prototype.filter
RECURSIVE Concat(_)
Concat(ss) == IF ss = <<>> THEN <<>> ELSE Head(ss) \o Concat(Tail(ss))

RECURSIVE OnlyGpx(_)
OnlyGpx(files) ==
    IF files = <<>> THEN <<>>
    ELSE (IF endsWith(Head(files).name, DotGpx) THEN <<Head(files)>> ELSE <<>>)
         \o OnlyGpx(Tail(files))

RECURSIVE OnlyLineStrings(_)
OnlyLineStrings(features) ==
    IF features = <<>> THEN <<>>
    ELSE (IF Head(features).geometry.type = "LineString"
            THEN <<Head(features)>> ELSE <<>>)
         \o OnlyLineStrings(Tail(features))

----------------------------------------------------------------------------
\* The source directories the script is run on.  Every .gpx file holds one
\* feature, as @mapbox/togeojson returns it for a file with one track (a
\* LineString, or a MultiLineString of several track segments) or one
\* waypoint (a Point).  Position i of file j is [lng, lat] = [j, i], so that
\* no two positions of a directory are the same.

\* Where a feature's fallback date comes from: its file's name and the
\* properties it has besides coordTimes, here a track's <time> or none.  The
\* <time> is one no track point carries, or that of a track point.
Origins(j) ==
    {[name |-> Loop10(j), properties |-> <<>>],
     [name |-> Loop10(j), properties |-> [time |-> TrackTime]],
     [name |-> Loop10(j), properties |-> [time |-> Day10 \o <<84, 48>>]],
     [name |-> Loop11(j), properties |-> <<>>]}

\* The part lengths of a multi-part line of w positions: two parts or more,
\* none empty.
Compositions(w) ==
    {ps \in UNION {[1..k -> 1..w] : k \in 2..w} : SumSeq(ps) = w}

\* The positions of a part that follows `before` positions.
PartCoordinates(j, before, n) == [i \in 1..n |-> <<j, before + i>>]

MultiCoordinates(j, ps) ==
    [k \in DOMAIN ps |-> PartCoordinates(j, SumSeq(SubSeq(ps, 1, k - 1)), ps[k])]

\* The timestamp arrays of at most n entries, of at least `least`.
StampSeqs(least, n) == UNION {[1..k -> Stamps] : k \in least..n}

\* The nested coordTimes of a multi-part line: one non-empty array per part
\* (togeojson adds a timestamp for each point that carries one), none longer
\* than its part.
RECURSIVE NestedTimes(_)
NestedTimes(ps) ==
    IF ps = <<>> THEN {<<>>}
    ELSE {<<c>> \o rest : c \in StampSeqs(1, Head(ps)), rest \in NestedTimes(Tail(ps))}

\* The property bags of a feature: with and without coordTimes.
WithTimes(properties, coordTimes) ==
    {properties} \cup {ObjectAssign(properties, [coordTimes |-> c]) : c \in coordTimes}

GpxFile(name, properties, type, coordinates) ==
    [name |-> name, features |-> <<Feature(properties, type, coordinates)>>]

\* The files of w positions, as file j of the directory.
FilesOfWeight(j, w) ==
    IF w = 0 THEN {[name |-> NotesTxt(j), features |-> <<>>]}
    ELSE UNION {
        {GpxFile(o.name, p, "LineString", PartCoordinates(j, 0, w)) :
            p \in WithTimes(o.properties, StampSeqs(1, w))}
        \cup UNION {
            {GpxFile(o.name, p, "MultiLineString", MultiCoordinates(j, ps)) :
                p \in WithTimes(o.properties,
                        UNION {NestedTimes(SubSeq(ps, 1, k)) : k \in 1..Len(ps)})}
            : ps \in Compositions(w)}
        : o \in Origins(j)}
      \cup (IF w = 1 THEN {GpxFile(Loop10(j), <<>>, "Point", <<j, 1>>)} ELSE {})

\* The directories whose files have the weights ws, from file j on.
RECURSIVE DirsFrom(_, _)
DirsFrom(j, ws) ==
    IF ws = <<>> THEN {<<>>}
    ELSE {<<f>> \o rest : f \in FilesOfWeight(j, Head(ws)), rest \in DirsFrom(j + 1, Tail(ws))}

\* The weights of the files of a directory: at most MaxFiles files of at
\* most MaxPts positions together.
Weights == {ws \in SeqsUpTo(0..MaxPts, MaxFiles) : SumSeq(ws) <= MaxPts}

----------------------------------------------------------------------------
\* util/togj.js: the top-level script.

SplitIdle == mFeature = <<>> /\ mOut = <<>> /\ mPc = "idle"

\* "2017-06-10Tkj", the timestamp of point j of part k; no two the same.
StampAt(k, j) == Day10 \o <<84, Digit(k), Digit(j)>>

\* The nested coordTimes and coordinates whose sub-arrays have the lengths ls.
TimesOf(ls) == [k \in DOMAIN ls |-> [j \in 1..ls[k] |-> StampAt(k, j)]]
CoordinatesOf(ls) == [k \in DOMAIN ls |-> [j \in 1..ls[k] |-> <<k, j>>]]

\* The properties of the features multiSplit is called on: the file's name,
\* with or without a time (the first timestamp of TimesOf, or one that is
\* no point's) and with or without the coordTimes given.
SplitProperties(coordTimes) ==
    LET named == [gpxFileName |-> Loop10(1)] IN
    UNION {WithTimes(p, coordTimes) :
             p \in {named,
                    ObjectAssign(named, [time |-> StampAt(1, 1)]),
                    ObjectAssign(named, [time |-> TrackTime])}}

\* multiSplit is called on a feature gpxToJson returned: a multi-part line
\* of at most MaxParts parts and MaxPoints positions whose coordTimes, if
\* any, has at most as many sub-arrays and timestamps; a line; or a point.
MultiSplitInit ==
    /\ \E ls \in PartLengths :
          \/ \E p \in SplitProperties({TimesOf(ts) : ts \in PartLengths}) :
                mFeature = Feature(p, "MultiLineString", CoordinatesOf(ls))
          \/ /\ Len(ls) = 1
             /\ \E p \in SplitProperties(
                             {TimesOf(ts)[1] : ts \in {t \in PartLengths : Len(t) = 1}}) :
                   mFeature = Feature(p, "LineString", CoordinatesOf(ls)[1])
          \/ /\ ls = <<>>
             /\ \E p \in SplitProperties({}) : mFeature = Feature(p, "Point", <<1, 1>>)
    /\ mOut = <<>>
    /\ mPc = "call"

\* if ('MultiLineString' !== feature.geometry.type) return [ feature ];
MultiSplitPass ==
    /\ mPc = "call"
    /\ mFeature.geometry.type # "MultiLineString"
    /\ mOut' = multiSplit(mFeature)
    /\ mPc' = "done"
    /\ UNCHANGED mFeature

\* return feature.geometry.coordinates.map(...): the array of the parts'
\* features, unless an assertion of the callback fails.
MultiSplitMap ==
    /\ mPc = "call"
    /\ mFeature.geometry.type = "MultiLineString"
    /\ IF multiSplitThrows(mFeature)
         THEN mOut' = mOut /\ mPc' = "threw"
         ELSE mOut' = multiSplit(mFeature) /\ mPc' = "done"
    /\ UNCHANGED mFeature

ScriptIdle ==
    /\ argc = 0 /\ dir = <<>> /\ readable = FALSE /\ feats = <<>> /\ lines = <<>>
    /\ split = <<>> /\ walks = <<>> /\ runs = <<>> /\ merged = <<>>
    /\ geojson = <<>> /\ stdout = <<>> /\ stderr = <<>> /\ pc = "idle"

\* node util/togj.js [directory]: process.argv has 2 entries or 3.
ScriptInit ==
    /\ \/ argc = 2 /\ readable = FALSE /\ dir = <<>>
       \/ argc = 3 /\ readable = FALSE /\ dir = <<>>
       \/ argc = 3 /\ readable = TRUE /\ \E ws \in Weights : dir \in DirsFrom(1, ws)
    /\ feats = <<>> /\ lines = <<>> /\ split = <<>> /\ walks = <<>>
    /\ runs = <<>> /\ merged = <<>> /\ geojson = <<>>
    /\ stdout = <<>> /\ stderr = <<>>
    /\ pc = "start"

\* if (process.argv.length < 3) { process.stderr.write(usage); process.exit(1); }
CheckArgs ==
    /\ pc = "start"
    /\ IF argc < 3
         THEN stderr' = Append(stderr, "usage") /\ pc' = "exit1"
         ELSE stderr' = stderr /\ pc' = "readdir"
    /\ UNCHANGED <<argc, dir, readable, feats, lines, split, walks, runs,
                   merged, geojson, stdout>>

\* fs.readdirSync(GPXDIR).filter(file => file.endsWith('.gpx')).
\*     flatMap(file => gpxToJson(...))
ReadDir ==
    /\ pc = "readdir"
    /\ IF readable
         THEN LET files == OnlyGpx(dir) IN
              /\ feats' = Concat([i \in DOMAIN files |-> gpxToJson(files[i])])
              /\ pc' = "multiSplit"
         ELSE feats' = feats /\ pc' = "threw"
    /\ UNCHANGED <<argc, dir, readable, lines, split, walks, runs, merged,
                   geojson, stdout, stderr>>

\* .flatMap(multiSplit).filter(feature => 'LineString' === feature.geometry.type)
MultiSplit ==
    /\ pc = "multiSplit"
    /\ IF \E i \in DOMAIN feats : multiSplitThrows(feats[i])
         THEN lines' = lines /\ pc' = "threw"
         ELSE /\ lines' = OnlyLineStrings(
                              Concat([i \in DOMAIN feats |-> multiSplit(feats[i])]))
              /\ pc' = "dateSplit"
    /\ UNCHANGED <<argc, dir, readable, feats, split, walks, runs, merged,
                   geojson, stdout, stderr>>

\* .flatMap(dateSplit): the mapping; the flattening is part of the next step.
DateSplit ==
    /\ pc = "dateSplit"
    /\ IF \E i \in DOMAIN lines : dateSplitThrows(lines[i])
         THEN split' = split /\ pc' = "threw"
         ELSE /\ split' = [i \in DOMAIN lines |-> dateSplit(lines[i])]
              /\ pc' = "sort"
    /\ UNCHANGED <<argc, dir, readable, feats, lines, walks, runs, merged,
                   geojson, stdout, stderr>>

\* .sort(timeCompare)
Sort ==
    /\ pc = "sort"
    /\ walks' = sort(Concat(split))
    /\ pc' = "merge"
    /\ UNCHANGED <<argc, dir, readable, feats, lines, split, runs, merged,
                   geojson, stdout, stderr>>

\* The merge, had it written the features merged so far before throwing.
MergeEager ==
    /\ pc = "merge"
    /\ LET ranges == forEachUniqueRange(walks, SameDate(walks))
           bad == {k \in DOMAIN ranges :
                      mergeLinesThrows(ranges[k][1], ranges[k][2], walks)}
       IN  IF bad # {}
             THEN /\ runs' = SubSeq(ranges, 1, SetMin(bad))
                  /\ merged' = [k \in 1..(SetMin(bad) - 1) |->
                                   mergeLines(ranges[k][1], ranges[k][2], walks)]
                  /\ stdout' = Append(stdout, merged')
                  /\ pc' = "threw"
             ELSE /\ runs' = ranges
                  /\ merged' = [k \in DOMAIN ranges |->
                                   mergeLines(ranges[k][1], ranges[k][2], walks)]
                  /\ stdout' = stdout
                  /\ pc' = "addBbox"
    /\ UNCHANGED <<argc, dir, readable, feats, lines, split, walks, geojson, stderr>>

\* forEachUniqueRange(walks, same date, mergeLines): mergeLines is called
\* range by range, and the first call that throws ends the script.
Merge ==
    /\ pc = "merge"
    /\ LET ranges == forEachUniqueRange(walks, SameDate(walks))
           bad == {k \in DOMAIN ranges :
                      mergeLinesThrows(ranges[k][1], ranges[k][2], walks)}
       IN  IF bad # {}
             THEN /\ runs' = SubSeq(ranges, 1, SetMin(bad))
                  /\ merged' = merged
                  /\ pc' = "threw"
             ELSE /\ runs' = ranges
                  /\ merged' = [k \in DOMAIN ranges |->
                                   mergeLines(ranges[k][1], ranges[k][2], walks)]
                  /\ pc' = "addBbox"
    /\ UNCHANGED <<argc, dir, readable, feats, lines, split, walks, geojson,
                   stdout, stderr>>

\* .map(addBbox)
AddBbox ==
    /\ pc = "addBbox"
    /\ IF \E k \in DOMAIN merged : addBboxThrows(merged[k])
         THEN geojson' = geojson /\ pc' = "threw"
         ELSE /\ geojson' = [k \in DOMAIN merged |-> addBbox(merged[k])]
              /\ pc' = "write"
    /\ UNCHANGED <<argc, dir, readable, feats, lines, split, walks, runs,
                   merged, stdout, stderr>>

\* process.stdout.write(JSON.stringify(geojson, null, ' ')): the value that
\* is serialised stands for its text.
Write ==
    /\ pc = "write"
    /\ stdout' = Append(stdout, [type |-> "FeatureCollection", features |-> geojson])
    /\ pc' = "exit0"
    /\ UNCHANGED <<argc, dir, readable, feats, lines, split, walks, runs,
                   merged, geojson, stderr>>

----------------------------------------------------------------------------
\* js/gpxmap.js: renderSummary, walkPopup

\* Most walks in the index.
MaxWalks == 2

\* search(array, pred), as one computation: the loop from le, ri on.
RECURSIVE SearchFrom(_, _, _, _)
SearchFrom(array, pred, l, r) ==
    IF 1 + l = r THEN r
    ELSE LET mi == Mid(l, r) IN
         IF PredAt(array, pred, mi)
           THEN SearchFrom(array, pred, l, mi)
           ELSE SearchFrom(array, pred, mi, r)

search(array, pred) == SearchFrom(array, pred, -1, Len(array))

\* The dates of walks and of the tracks' features: "2017-06-09" to
\* "2017-06-12", in ascending order.
Day09 == <<50, 48, 49, 55, 45, 48, 54, 45, 48, 57>>
Day12 == <<50, 48, 49, 55, 45, 48, 54, 45, 49, 50>>
Dates == <<Day09, Day10, Day11, Day12>>

\* The dates arrays of a walk: some of Dates, one at least, ascending.
WalkDates ==
    {ds \in SeqsUpTo(Range(Dates), Len(Dates)) :
        /\ ds # <<>>
        /\ \A i \in 1..(Len(ds) - 1) : StrLess(ds[i], ds[i + 1])}

\* walk => date < walk.dates[0], on the walks of an array
StartsAfter(array, date) ==
    {walk \in Range(array) : StrLess(date, walk.dates[1])}

\* d => date <= d, on the dates of an array
NotBefore(array, date) == {d \in Range(array) : ~StrLess(d, date)}

RenderIdle ==
    /\ index = <<>> /\ selectedS = <<>> /\ idx = "none" /\ popup = "none"
    /\ details = <<>> /\ vPc = "idle"

\* renderSummary is called once the index is loaded, an array of walks in
\* ascending order of their first dates; the selected date is undefined
\* (here <<>>) or a date a click or the history state has set.
RenderInit ==
    /\ \E dss \in SeqsUpTo(WalkDates, MaxWalks) :
          /\ \A i \in 1..(Len(dss) - 1) : ~StrLess(dss[i + 1][1], dss[i][1])
          /\ index = [i \in DOMAIN dss |-> [title |-> i, dates |-> dss[i]]]
    /\ selectedS \in {<<>>} \cup Range(Dates)
    /\ idx = "none"
    /\ popup = "none"
    /\ details = <<>>
    /\ vPc = "call"

\* const date = selected(); if (date) { const idx = search(...) - 1; ... }
RenderSelected ==
    /\ vPc = "call"
    /\ IF selectedS # <<>>
         THEN /\ idx' = search(index, StartsAfter(index, selectedS)) - 1
              /\ vPc' = "walkPopup"
         ELSE idx' = idx /\ vPc' = "summary"
    /\ UNCHANGED <<index, selectedS, popup, details>>

\* walkPopup(date, walks[idx]) where walks[idx] is undefined: walk.dates is
\* a TypeError, which nothing catches.
WalkPopupThrow ==
    /\ vPc = "walkPopup"
    /\ idx + 1 \notin DOMAIN index
    /\ vPc' = "threw"
    /\ UNCHANGED <<index, selectedS, idx, popup, details>>

\* walkPopup(date, walks[idx]): undefined unless walk.dates[idx] === date,
\* else the popup of the walk; if (popup) ...
WalkPopup ==
    /\ vPc = "walkPopup"
    /\ idx + 1 \in DOMAIN index
    /\ LET walk == index[idx + 1]
           at == search(walk.dates, NotBefore(walk.dates, selectedS))
       IN  IF at + 1 \in DOMAIN walk.dates /\ walk.dates[at + 1] = selectedS
             THEN /\ popup' = [title |-> walk.title, date |-> selectedS, idx |-> at]
                  /\ vPc' = "popup"
             ELSE /\ popup' = <<>>
                  /\ vPc' = "summary"
    /\ UNCHANGED <<index, selectedS, idx, details>>

\* return renderDetails(popup);
RenderPopup ==
    /\ vPc = "popup"
    /\ details' = Append(details, popup)
    /\ vPc' = "done"
    /\ UNCHANGED <<index, selectedS, idx, popup>>

\* return renderDetails({ 'title': options.title, 'content': sumPane.render() });
RenderSummaryPane ==
    /\ vPc = "summary"
    /\ details' = Append(details, [title |-> "options.title"])
    /\ vPc' = "done"
    /\ UNCHANGED <<index, selectedS, idx, popup>>

----------------------------------------------------------------------------
\* Specifications.

Init ==
    /\ ScriptInit
    /\ SearchIdle /\ RangeIdle /\ DistanceIdle /\ BboxIdle /\ SplitIdle /\ RenderIdle
Next ==
    \/ CheckArgs /\ UNCHANGED exceptScript
    \/ ReadDir /\ UNCHANGED exceptScript
    \/ MultiSplit /\ UNCHANGED exceptScript
    \/ DateSplit /\ UNCHANGED exceptScript
    \/ Sort /\ UNCHANGED exceptScript
    \/ Merge /\ UNCHANGED exceptScript
    \/ AddBbox /\ UNCHANGED exceptScript
    \/ Write /\ UNCHANGED exceptScript
Spec == Init /\ [][Next]_vars

SpecSearchInit ==
    /\ SearchInit
    /\ RangeIdle /\ ScriptIdle /\ DistanceIdle /\ BboxIdle /\ SplitIdle /\ RenderIdle
SpecSearchNext ==
    \/ SearchStep /\ UNCHANGED exceptSearch
    \/ SearchReturn /\ UNCHANGED exceptSearch
SpecSearch == SpecSearchInit /\ [][SpecSearchNext]_vars

SpecRangeInit ==
    /\ RangeInit
    /\ SearchIdle /\ ScriptIdle /\ DistanceIdle /\ BboxIdle /\ SplitIdle /\ RenderIdle
SpecRangeNext ==
    \/ RangeOuter /\ UNCHANGED exceptRange
    \/ RangeInner /\ UNCHANGED exceptRange
    \/ RangePush /\ UNCHANGED exceptRange
SpecRange == SpecRangeInit /\ [][SpecRangeNext]_vars

SpecDistanceInit ==
    /\ DistanceInit
    /\ SearchIdle /\ RangeIdle /\ ScriptIdle /\ BboxIdle /\ SplitIdle /\ RenderIdle
SpecDistanceNext ==
    \/ DistanceEnter /\ UNCHANGED exceptDistance
    \/ DistanceSeg /\ UNCHANGED exceptDistance
    \/ DistanceReturn /\ UNCHANGED exceptDistance
SpecDistance == SpecDistanceInit /\ [][SpecDistanceNext]_vars

SpecBboxInit ==
    /\ BboxInit
    /\ SearchIdle /\ RangeIdle /\ ScriptIdle /\ DistanceIdle /\ SplitIdle /\ RenderIdle
SpecBboxNext ==
    \/ BboxPass /\ UNCHANGED exceptBbox
    \/ BboxThrow /\ UNCHANGED exceptBbox
    \/ BboxReturn /\ UNCHANGED exceptBbox
SpecBbox == SpecBboxInit /\ [][SpecBboxNext]_vars

SpecSplitInit ==
    /\ MultiSplitInit
    /\ SearchIdle /\ RangeIdle /\ ScriptIdle /\ DistanceIdle /\ BboxIdle /\ RenderIdle
SpecSplitNext ==
    \/ MultiSplitPass /\ UNCHANGED exceptSplit
    \/ MultiSplitMap /\ UNCHANGED exceptSplit
SpecSplit == SpecSplitInit /\ [][SpecSplitNext]_vars

SpecRenderInit ==
    /\ RenderInit
    /\ SearchIdle /\ RangeIdle /\ ScriptIdle /\ DistanceIdle /\ BboxIdle /\ SplitIdle
SpecRenderNext ==
    \/ RenderSelected /\ UNCHANGED exceptRender
    \/ WalkPopupThrow /\ UNCHANGED exceptRender
    \/ WalkPopup /\ UNCHANGED exceptRender
    \/ RenderPopup /\ UNCHANGED exceptRender
    \/ RenderSummaryPane /\ UNCHANGED exceptRender
SpecRender == SpecRenderInit /\ [][SpecRenderNext]_vars

----------------------------------------------------------------------------
\* Claims about search.

\* pred is false on a (possibly empty) prefix of the array and true on the rest.
Monotone(array, pred) ==
    \E t \in 0..Len(array) :
        \A i \in 0..(Len(array) - 1) : PredAt(array, pred, i) <=> i >= t

\* t is a boundary: pred holds at t (or t = n) and fails at t - 1 (or t = 0).
IsBoundary(array, pred, t) ==
    /\ t \in 0..Len(array)
    /\ t = Len(array) \/ PredAt(array, pred, t)
    /\ t = 0 \/ ~PredAt(array, pred, t - 1)

\* C4: for a predicate that is false on a prefix and true on the rest, search
\* returns the unique boundary index t in 0..n, and pred is only ever
\* evaluated at the real indices 0..n-1.
C4_SearchBoundary ==
    /\ sEvals \subseteq 0..(Len(sArray) - 1)
    /\ (sPc = "done" /\ Monotone(sArray, sPred)) =>
          /\ IsBoundary(sArray, sPred, ri)
          /\ \A t \in 0..Len(sArray) : IsBoundary(sArray, sPred, t) => t = ri

\* A search that has returned an interior boundary of a three-element array
\* or longer.
C4_Witness ==
    /\ sPc = "done"
    /\ Monotone(sArray, sPred)
    /\ Len(sArray) >= 3
    /\ 0 < ri /\ ri < Len(sArray)
    /\ sEvals # {}

----------------------------------------------------------------------------
\* Claims about forEachUniqueRange.

\* C5: the ranges passed to func are contiguous and cover 0..array.length
\* exactly, every range is non-empty, the result lists func's return values
\* in call order, and an empty array gives an empty result with no call.
C5_RangesPartition ==
    /\ Len(res) = Len(rCalls)
    /\ \A k \in DOMAIN rCalls :
          /\ rCalls[k][1] < rCalls[k][2]
          /\ rCalls[k][1] = (IF k = 1 THEN 0 ELSE rCalls[k - 1][2])
          /\ res[k] = slice(rArray, rCalls[k][1], rCalls[k][2])
    /\ rPc = "done" =>
          /\ rArray = <<>> => (rCalls = <<>> /\ res = <<>>)
          /\ rArray # <<>> => rCalls[Len(rCalls)][2] = Len(rArray)
          /\ Concat(res) = rArray

\* A finished call that made at least two calls to func, one of them with a
\* range of two or more elements.
C5_Witness ==
    /\ rPc = "done"
    /\ Len(rCalls) >= 2
    /\ \E k \in DOMAIN rCalls : rCalls[k][2] - rCalls[k][1] >= 2

\* C6: every emitted range [lo, hi) is extended by comparing against its first
\* element only: equal(array[lo], array[k]) holds for every k in lo+1..hi-1,
\* and hi = array.length or equal(array[lo], array[hi]) is false.
C6_FirstElementRuns ==
    \A c \in DOMAIN rCalls :
        LET l == rCalls[c][1]
            h == rCalls[c][2]
        IN  /\ \A k \in (l + 1)..(h - 1) : <<rArray[l + 1], rArray[k + 1]>> \in rEqual
            /\ h = Len(rArray) \/ <<rArray[l + 1], rArray[h + 1]>> \notin rEqual

\* A finished call that emitted a range holding two elements that are not
\* equal to each other (a non-transitive equal).
C6_Witness ==
    /\ rPc = "done"
    /\ \E c \in DOMAIN rCalls :
          \E k1, k2 \in (rCalls[c][1] + 1)..(rCalls[c][2] - 1) :
              /\ k1 < k2
              /\ <<rArray[k1 + 1], rArray[k2 + 1]>> \notin rEqual

----------------------------------------------------------------------------
\* Claims about the conversion script.

\* The day-segments: dateSplit's results, flattened.
DaySegments == Concat(split)

\* The dates among the day-segments, and the day-segments of a date.
SegmentDates == {DaySegments[i].properties.date : i \in DOMAIN DaySegments}
SegmentsOf(date) == {i \in DOMAIN DaySegments : DaySegments[i].properties.date = date}

\* The output features carry every date among the day-segments exactly once,
\* and the feature of a date holds the day-segments of that date as its
\* parts: one LineString for one segment, one part per segment otherwise.
DatesCovered(out) ==
    \A date \in SegmentDates :
        /\ Cardinality({k \in DOMAIN out : out[k].properties.date = date}) = 1
        /\ LET f == out[CHOOSE k \in DOMAIN out : out[k].properties.date = date]
               segs == SegmentsOf(date)
           IN  IF Cardinality(segs) = 1
                 THEN /\ f.geometry.type = "LineString"
                      /\ \A i \in segs :
                            f.geometry.coordinates = DaySegments[i].geometry.coordinates
                 ELSE /\ f.geometry.type = "MultiLineString"
                      /\ Len(f.geometry.coordinates) = Cardinality(segs)
                      /\ Range(f.geometry.coordinates)
                            = {DaySegments[i].geometry.coordinates : i \in segs}

\* The features the script has written, none if it has written nothing.
Written == IF stdout = <<>> THEN <<>> ELSE stdout[1].features

Mismatched(feature) ==
    /\ Has(feature.properties, "coordTimes")
    /\ \/ /\ feature.geometry.type = "LineString"
          /\ Len(feature.properties.coordTimes) # Len(feature.geometry.coordinates)
       \/ /\ feature.geometry.type = "MultiLineString"
          /\ \/ Len(feature.properties.coordTimes) # Len(feature.geometry.coordinates)
             \/ \E i \in DOMAIN feature.geometry.coordinates :
                   /\ i <= Len(feature.properties.coordTimes)
                   /\ Len(feature.properties.coordTimes[i])
                         # Len(feature.geometry.coordinates[i])

\* C2 as stated: whenever a feature entering the pipeline has a coordTimes
\* whose length differs from its coordinate count, the pipeline aborts and
\* emits no output.
C2_MismatchAborts ==
    (\E i \in DOMAIN feats : Mismatched(feats[i])) =>
        /\ stdout = <<>>
        /\ pc # "exit0"

\* The number of places where the calendar day changes between one
\* timestamp and the next.
DayChanges(times) ==
    Cardinality({i \in 1..(Len(times) - 1) :
        substr(times[i], 0, DateLen) # substr(times[i + 1], 0, DateLen)})

\* C3: for a LineString whose coordTimes is aligned with its coordinates,
\* dateSplit's segments partition the points in order: their coordinates and
\* their coordTimes concatenate to the input's, no segment is empty, each
\* has as many coordTimes as coordinates, its time is its first timestamp
\* and its date the first 10 characters of it, all its timestamps are of
\* that date, and a track crossing midnight once yields exactly 2 segments.
C3_DateSplitPartitions ==
    \A i \in DOMAIN split :
        ~Unsplittable(lines[i]) =>
            LET segs == split[i] IN
            /\ Concat([k \in DOMAIN segs |-> segs[k].geometry.coordinates])
                  = lines[i].geometry.coordinates
            /\ Concat([k \in DOMAIN segs |-> segs[k].properties.coordTimes])
                  = lines[i].properties.coordTimes
            /\ \A k \in DOMAIN segs :
                  /\ segs[k].geometry.type = "LineString"
                  /\ segs[k].geometry.coordinates # <<>>
                  /\ Len(segs[k].properties.coordTimes)
                        = Len(segs[k].geometry.coordinates)
                  /\ segs[k].properties.time = segs[k].properties.coordTimes[1]
                  /\ segs[k].properties.date
                        = SubSeq(segs[k].properties.coordTimes[1], 1, DateLen)
                  /\ DayChanges(segs[k].properties.coordTimes) = 0
            /\ DayChanges(lines[i].properties.coordTimes) = 1 => Len(segs) = 2

\* dateSplit has split a track that crosses midnight once into 2 segments.
C3_Witness ==
    \E i \in DOMAIN split :
        /\ ~Unsplittable(lines[i])
        /\ DayChanges(lines[i].properties.coordTimes) = 1
        /\ Len(split[i]) = 2

\* Whether two property bags agree on a property, where the first has it.
AgreeOn(a, b, k) == Has(a, k) => (Has(b, k) /\ a[k] = b[k])

\* A line whose points all carry a timestamp, all of one calendar day.
SingleDay(feature) ==
    /\ ~Unsplittable(feature)
    /\ feature.properties.coordTimes # <<>>
    /\ DayChanges(feature.properties.coordTimes) = 0

\* C7 as stated: dateSplit applied to a feature whose points all lie on one
\* calendar day returns exactly one feature with the input's date and time
\* and the same coordinates and coordTimes.
C7_SingleDayUnchanged ==
    \A i \in DOMAIN split :
        SingleDay(lines[i]) =>
            /\ Len(split[i]) = 1
            /\ AgreeOn(lines[i].properties, split[i][1].properties, "date")
            /\ AgreeOn(lines[i].properties, split[i][1].properties, "time")
            /\ split[i][1].properties.coordTimes = lines[i].properties.coordTimes
            /\ split[i][1].geometry = lines[i].geometry

\* C7, amended: dateSplit applied to a feature produced by dateSplit returns
\* exactly one feature, equal to its input: same date, time, coordinates and
\* coordTimes.
C7_DateSplitIdempotent ==
    \A i \in DOMAIN DaySegments :
        /\ ~dateSplitThrows(DaySegments[i])
        /\ dateSplit(DaySegments[i]) = <<DaySegments[i]>>

\* dateSplit has produced the two segments of a track that crosses midnight,
\* and a feature it returned whole.
C7_Witness ==
    /\ \E i \in DOMAIN split : ~Unsplittable(lines[i]) /\ Len(split[i]) = 2
    /\ \E i \in DOMAIN split : Unsplittable(lines[i])

\* C8: mergeLines applied to a run of exactly one element returns that
\* element itself: same geometry type, coordinates and properties.
C8_SingletonUnchanged ==
    \A k \in DOMAIN merged :
        runs[k][2] - runs[k][1] = 1 => merged[k] = walks[runs[k][1] + 1]

\* mergeLines has returned the element of a one-element run, next to a
\* merged run.
C8_Witness ==
    /\ \E k \in DOMAIN merged :
          /\ runs[k][2] - runs[k][1] = 1
          /\ merged[k].geometry.type = "LineString"
    /\ \E k \in DOMAIN merged : runs[k][2] - runs[k][1] >= 2

\* The elements of a run.
RunOf(k) == slice(walks, runs[k][1], runs[k][2])

\* An element whose coordTimes is missing or differs in length from its
\* coordinates.
Unaligned(walk) ==
    \/ ~Has(walk.properties, "coordTimes")
    \/ Len(walk.properties.coordTimes) # Len(walk.geometry.coordinates)

\* What mergeLines returns for a run of two or more: a MultiLineString whose
\* parts are the elements' coordinates in run order, with the first
\* element's date and, when the first element carries coordTimes, every
\* element's coordTimes in order, each as long as its part, and the first
\* element's first timestamp as time.
MergedAsRun(k) ==
    LET run == RunOf(k)
        m == merged[k]
    IN  /\ m.type = "Feature"
        /\ m.geometry.type = "MultiLineString"
        /\ Len(m.geometry.coordinates) = Len(run)
        /\ \A i \in DOMAIN run :
              /\ run[i].geometry.type = "LineString"
              /\ run[i].properties.date = run[1].properties.date
              /\ m.geometry.coordinates[i] = run[i].geometry.coordinates
        /\ m.properties.date = run[1].properties.date
        /\ IF Has(run[1].properties, "coordTimes")
             THEN /\ DOMAIN m.properties = {"date", "coordTimes", "time"}
                  /\ Len(m.properties.coordTimes) = Len(run)
                  /\ \A i \in DOMAIN run :
                        /\ m.properties.coordTimes[i] = run[i].properties.coordTimes
                        /\ Len(m.properties.coordTimes[i])
                              = Len(m.geometry.coordinates[i])
                  /\ m.properties.time = run[1].properties.coordTimes[1]
             ELSE DOMAIN m.properties = {"date"}

\* The call of mergeLines that threw: the last one made.
MergeThrew == pc = "threw" /\ runs # <<>> /\ merged = <<>>

C10_WriteLastAndOnce ==
    /\ Len(stdout) <= 1
    /\ pc \in {"exit1", "threw"} => stdout = <<>>
    /\ pc = "exit0" => Len(stdout) = 1
    /\ stdout # <<>> =>
          /\ pc = "exit0"
          /\ argc >= 3 /\ readable
          /\ stderr = <<>>
          /\ Len(split) = Len(lines)
          /\ Len(walks) = Len(DaySegments)
          /\ Len(merged) = Len(runs)
          /\ runs # <<>> => runs[Len(runs)][2] = Len(walks)
          /\ Len(geojson) = Len(merged)
          /\ \A k \in DOMAIN geojson : "bbox" \in DOMAIN geojson[k]
          /\ stdout[1].features = geojson

\* The script has ended in mergeLines, after the day-segments were sorted.
C10_Witness ==
    /\ MergeThrew
    /\ walks # <<>>
    /\ stdout = <<>>

----------------------------------------------------------------------------
\* Claims about distance.

\* The sum of Earth.distance over the consecutive point pairs of a part.
RECURSIVE PairSum(_)
PairSum(seg) ==
    IF Len(seg) <= 1 THEN 0
    ELSE EarthDistance(seg[1], seg[2]) + PairSum(Tail(seg))

\* The parts of the argument of distance: the argument itself, if it is a
\* Polyline's.
PartsGiven == IF dNested THEN dLatLngs ELSE <<dLatLngs>>

\* C11: the distance of a multi-part geometry is the sum of the distances
\* computed independently for each of its parts, each the sum over the
\* part's consecutive point pairs; a part of zero or one point contributes
\* 0, and an empty geometry has distance 0.
C11_DistanceIsSumOfParts ==
    dPc = "done" =>
        /\ dist = SumSeq([k \in DOMAIN PartsGiven |-> distance(PartsGiven[k], 0)])
        /\ \A k \in DOMAIN PartsGiven :
              /\ distance(PartsGiven[k], 0) = PairSum(PartsGiven[k])
              /\ Len(PartsGiven[k]) <= 1 => distance(PartsGiven[k], 0) = 0
        /\ Len(dLatLngs) = 0 => dist = 0

\* distance has returned a positive sum for a geometry of several parts, one
\* of one point and one of several.
C11_Witness ==
    /\ dPc = "done"
    /\ dNested
    /\ dist > 0
    /\ \E k \in DOMAIN dLatLngs : Len(dLatLngs[k]) = 1
    /\ \E k \in DOMAIN dLatLngs : Len(dLatLngs[k]) >= 2

----------------------------------------------------------------------------
\* Claims about addBbox.

\* How many components each position of the argument's geometry has.
Dimensions == {Len(c) : c \in Positions(bFeature.geometry)}

\* C12 as stated: addBbox fails for every line or multi-line feature in
\* which some coordinate has another number of components than another;
\* when all are 2-D the bbox has 4 entries and when all are 3-D it has 6.
C12_MixedDimensionsFail ==
    (bPc \in {"done", "threw"} /\ LineType(bFeature.geometry.type)) =>
        /\ Cardinality(Dimensions) > 1 => bPc = "threw"
        /\ (bPc = "done" /\ Dimensions = {2}) => Len(bOut.bbox) = 4
        /\ (bPc = "done" /\ Dimensions = {3}) => Len(bOut.bbox) = 6

----------------------------------------------------------------------------
\* Claims about multiSplit.

\* Whether the feature's time differs from the first sub-array's first
\* timestamp; a missing time differs from every timestamp.
TimeDiffers(properties) ==
    LET first == properties.coordTimes[1] IN
    IF Has(properties, "time")
      THEN first = <<>> \/ properties.time # first[1]
      ELSE first # <<>>

\* C13: multiSplit returns a feature that is no MultiLineString unchanged as
\* a one-element list; for a MultiLineString of n parts it returns n
\* LineString features in part order, the i-th with part i's coordinates, a
\* copy of the other properties and, when coordTimes is present, with
\* coordTimes the i-th sub-array and time that sub-array's first timestamp;
\* it fails when coordTimes has fewer sub-arrays than parts, when a
\* sub-array's length differs from its part's, or when the first part's
\* first timestamp differs from the feature's time.
C13_MultiSplit ==
    LET props == mFeature.properties
        parts == mFeature.geometry.coordinates
    IN
    mPc \in {"done", "threw"} =>
      IF mFeature.geometry.type # "MultiLineString"
        THEN mPc = "done" /\ mOut = <<mFeature>>
        ELSE
          /\ mPc = "done" =>
                /\ Len(mOut) = Len(parts)
                /\ \A i \in DOMAIN parts :
                      /\ mOut[i].type = "Feature"
                      /\ mOut[i].geometry
                            = [type |-> "LineString", coordinates |-> parts[i]]
                      /\ Without(Without(mOut[i].properties, "coordTimes"), "time")
                            = Without(Without(props, "coordTimes"), "time")
                      /\ IF Has(props, "coordTimes")
                           THEN /\ Has(mOut[i].properties, "coordTimes")
                                /\ mOut[i].properties.coordTimes = props.coordTimes[i]
                                /\ IF props.coordTimes[i] = <<>>
                                     THEN ~Has(mOut[i].properties, "time")
                                     ELSE /\ Has(mOut[i].properties, "time")
                                          /\ mOut[i].properties.time
                                                = props.coordTimes[i][1]
                           ELSE mOut[i].properties = props
          /\ (Has(props, "coordTimes") /\ parts # <<>>) =>
                /\ Len(props.coordTimes) < Len(parts) => mPc = "threw"
                /\ (\E i \in DOMAIN parts \cap DOMAIN props.coordTimes :
                       Len(props.coordTimes[i]) # Len(parts[i])) => mPc = "threw"
                /\ (props.coordTimes # <<>> /\ TimeDiffers(props)) => mPc = "threw"

\* multiSplit has split a line of several parts with coordTimes into its
\* parts, one of them not the first and with a timestamp.
C13_Witness ==
    /\ mPc = "done"
    /\ mFeature.geometry.type = "MultiLineString"
    /\ Has(mFeature.properties, "coordTimes")
    /\ \E i \in DOMAIN mOut : i > 1 /\ Has(mOut[i].properties, "time")

----------------------------------------------------------------------------
\* Claims about renderSummary.

\* The walks whose first date is <= the selected date, by 0-based index.
StartedWalks == {i \in 0..(Len(index) - 1) : ~StrLess(selectedS, index[i + 1].dates[1])}

\* renderSummary has computed idx.
Looked == vPc \notin {"idle", "call"} /\ selectedS # <<>>

\* C14 as stated: for every index sorted ascending by first date and every
\* selected date, the lookup index is a valid index 0..walks.length-1 naming
\* the last walk whose first date is <= the selected date, walkPopup yields
\* a popup only when the date is one of that walk's dates, and the summary
\* is rendered otherwise, without error.
C14_LookupValid ==
    /\ vPc # "threw"
    /\ Looked =>
          /\ idx \in 0..(Len(index) - 1)
          /\ idx \in StartedWalks
          /\ \A i \in StartedWalks : i <= idx
    /\ vPc = "popup" => selectedS \in Range(index[idx + 1].dates)
    /\ vPc = "done" =>
          /\ Len(details) = 1
          /\ details[1] = [title |-> "options.title"]
                <=> (selectedS = <<>> \/ selectedS \notin Range(index[idx + 1].dates))

====
